---- MODULE Spec2Model ----
(***************************************************************************)
(* Model of streamlit_app.py ("Mapping Moral Logic"): the library load,    *)
(* the cached embedding index, the cosine matcher, the hint composer and   *)
(* the per-session usage guard.                                            *)
(*                                                                         *)
(* Python values are tagged records [t, v]; a str is a sequence of tokens  *)
(* (a word, or the one-character string " "), so that " ".join and         *)
(* .strip() are computed and not assumed.  A raised exception is the field *)
(* raised = TRUE of an operator's result.                                  *)
(***************************************************************************)
EXTENDS Integers, Sequences

VARIABLES file, cache, invoked, requests_today, LIBRARY_EMBEDS,
          button, outcome, calls, label, hint, output, arg, ret

vars == <<file, cache, invoked, requests_today, LIBRARY_EMBEDS,
          button, outcome, calls, label, hint, output, arg, ret>>

sessionVars == <<file, cache, invoked, requests_today, LIBRARY_EMBEDS,
                 button, outcome, calls, label, hint, output>>

(***************************************************************************)
(* Python / JSON values                                                    *)
(***************************************************************************)
S(s) == [t |-> "str", v |-> s]
L(l) == [t |-> "list", v |-> l]
D(d) == [t |-> "dict", v |-> d]
N(n) == [t |-> "int", v |-> n]
Null == [t |-> "null", v |-> <<>>]
EmptyStr == S(<<>>)
EmptyList == L(<<>>)
SP == " "

\* bool(x): None, "", [], {} and 0 are falsy
Truthy(x) ==
  CASE x.t = "null" -> FALSE
    [] x.t = "str" -> Len(x.v) > 0
    [] x.t = "list" -> Len(x.v) > 0
    [] x.t = "dict" -> DOMAIN x.v # {}
    [] x.t = "int" -> x.v # 0

\* d.get(k, default) on a dict d
Get(d, k, default) == IF k \in DOMAIN d.v THEN d.v[k] ELSE default

\* x or []
OrEmptyList(x) == IF Truthy(x) THEN x ELSE EmptyList

\* len(x): TypeError for None and int
LenRaises(x) == x.t \in {"null", "int"}

(***************************************************************************)
(* The library documents library.json may hold                             *)
(***************************************************************************)
E_fair ==
  D([topic |-> S(<<"fairness">>),
     tags |-> L(<<S(<<"fairness">>), S(<<"equity">>)>>),
     sample_claim |-> S(<<"that", SP, "is", SP, "unfair">>),
     questions |-> L(<<S(<<"q1">>), S(<<"q2">>), S(<<"q3">>)>>),
     reflection |-> L(<<S(<<"r1">>), S(<<"r2">>), S(<<"r3">>)>>)])

E_speech ==
  D([topic |-> S(<<"speech">>),
     tags |-> S(<<"a", "b">>),
     sample_claim |-> L(<<S(<<"ban", SP, "speakers">>), S(<<"safety">>)>>),
     questions |-> L(<<N(3), S(<<"q4">>), S(<<"q5">>)>>),
     reflection |-> S(<<"r4">>)])

\* an entry without a topic: indexed under its tags alone
E_notopic ==
  D([tags |-> L(<<S(<<"humility">>)>>), questions |-> Null])

\* composite text " " + "" : empty after strip
E_blank ==
  D([topic |-> S(<<SP>>), tags |-> Null, sample_claim |-> EmptyList])

E_topic_null == D([topic |-> Null, tags |-> L(<<S(<<"a">>)>>)])

E_tags_int == D([topic |-> S(<<"t">>), tags |-> N(7)])

E_claim_nonstr == D([topic |-> S(<<"t">>), sample_claim |-> L(<<N(1)>>)])

E_questions_int == D([topic |-> S(<<"t">>), questions |-> N(4)])

P_auto ==
  D([name |-> S(<<"autonomy">>), description |-> S(<<"people", SP, "choose">>)])

P_humility == D([name |-> S(<<"humility">>)])

P_blank == D([name |-> EmptyStr, description |-> S(<<SP, SP>>)])

P_desc_int == D([name |-> S(<<"n">>), description |-> N(2)])

WellFormedDocs ==
  {"empty_dict", "empty_lists", "good", "two_entries", "blank_items",
   "only_principles", "notopic"}

MalformedDocs ==
  {"top_list", "top_null", "top_str", "entries_null", "principles_int",
   "entries_str", "nonobj_item", "topic_null", "tags_int", "claim_nonstr",
   "desc_int", "principles_null", "questions_int"}

Docs == WellFormedDocs \cup MalformedDocs

\* json.loads of the file's text
Json(doc) ==
  CASE doc = "empty_dict" -> D(<<>>)
    [] doc = "empty_lists" ->
         D([entries |-> EmptyList, general_principles |-> EmptyList])
    [] doc = "good" ->
         D([general_principles |-> L(<<P_auto>>), entries |-> L(<<E_fair>>)])
    [] doc = "two_entries" ->
         D([general_principles |-> L(<<P_auto>>),
            entries |-> L(<<E_fair, E_speech>>)])
    [] doc = "blank_items" ->
         D([entries |-> L(<<E_blank, E_fair>>),
            general_principles |-> L(<<P_blank, P_humility>>)])
    [] doc = "only_principles" ->
         D([general_principles |-> L(<<P_auto, P_humility>>)])
    [] doc = "notopic" -> D([entries |-> L(<<E_notopic>>)])
    [] doc = "top_list" -> L(<<E_fair>>)
    [] doc = "top_null" -> Null
    [] doc = "top_str" -> S(<<"abc">>)
    [] doc = "entries_null" ->
         D([entries |-> Null, general_principles |-> L(<<P_auto>>)])
    [] doc = "principles_null" ->
         D([entries |-> L(<<E_fair>>), general_principles |-> Null])
    [] doc = "principles_int" ->
         D([entries |-> L(<<E_fair>>), general_principles |-> N(7)])
    [] doc = "entries_str" -> D([entries |-> S(<<"a", "b">>)])
    [] doc = "nonobj_item" -> D([entries |-> L(<<E_fair, N(5)>>)])
    [] doc = "topic_null" -> D([entries |-> L(<<E_topic_null>>)])
    [] doc = "tags_int" ->
         D([entries |-> L(<<E_fair, E_tags_int>>),
            general_principles |-> L(<<P_auto>>)])
    [] doc = "claim_nonstr" -> D([entries |-> L(<<E_claim_nonstr>>)])
    [] doc = "desc_int" ->
         D([entries |-> L(<<E_fair>>), general_principles |-> L(<<P_desc_int>>)])
    [] doc = "questions_int" -> D([entries |-> L(<<E_questions_int>>)])

\* what the path holds: no file, text that is not JSON, or a document
Files == {"missing", "badjson"} \cup Docs

(***************************************************************************)
(* load_library and the sidebar summary (module level, every script run)   *)
(***************************************************************************)
\* the value load_library returns, named by the document it equals
load_library(f) == IF f \in {"missing", "badjson"} THEN "empty_dict" ELSE f

\* the diagnostic written to the sidebar
load_diagnostic(f) ==
  CASE f = "missing" -> "not_found"
    [] f = "badjson" -> "invalid_json"
    [] OTHER -> "none"

\* lines 42-47: len() of both sections; TRUE when a TypeError escapes
sidebar_raises(lib) ==
  LET j == Json(lib)
  IN  /\ j.t = "dict"
      /\ \/ LenRaises(Get(j, "general_principles", EmptyList))
         \/ LenRaises(Get(j, "entries", EmptyList))

(***************************************************************************)
(* Text helpers                                                            *)
(***************************************************************************)
RECURSIVE Join(_)
\* " ".join(bits) for a sequence of token sequences
Join(bits) ==
  IF Len(bits) = 0 THEN <<>>
  ELSE IF Len(bits) = 1 THEN bits[1]
  ELSE bits[1] \o <<SP>> \o Join(Tail(bits))

RECURSIVE LStrip(_)
LStrip(s) == IF Len(s) > 0 /\ Head(s) = SP THEN LStrip(Tail(s)) ELSE s

RECURSIVE RStrip(_)
RStrip(s) ==
  IF Len(s) > 0 /\ s[Len(s)] = SP THEN RStrip(SubSeq(s, 1, Len(s) - 1)) ELSE s

\* str.strip()
Strip(s) == RStrip(LStrip(s))

\* the elements a for-loop or join draws from x; raised for a non-iterable
Iterate(x) ==
  CASE x.t = "list" -> [raised |-> FALSE, seq |-> x.v]
    [] x.t = "str" ->
         [raised |-> FALSE, seq |-> [i \in 1..Len(x.v) |-> S(<<x.v[i]>>)]]
    [] OTHER -> [raised |-> TRUE, seq |-> <<>>]

\* " ".join(xs) over python values: TypeError unless every element is a str
JoinValues(xs) ==
  IF \E i \in 1..Len(xs) : xs[i].t # "str"
  THEN [raised |-> TRUE, text |-> <<>>]
  ELSE [raised |-> FALSE, text |-> Join([i \in 1..Len(xs) |-> xs[i].v])]

(***************************************************************************)
(* Embedding vectors and cosine similarity                                 *)
(***************************************************************************)
FAIL == <<>>

\* the longest multiple of a direction the service returns
MaxScale == 2

Directions == { <<1, 1, 1, 1>>, <<3, 4, 0, 0>>, <<-1, -1, -1, -1>> }

Scaled(c, d) == [i \in 1..Len(d) |-> c * d[i]]

\* the embeddings the service may return: same dimension, any magnitude
Vecs == {Scaled(c, d) : c \in 1..MaxScale, d \in Directions}

RECURSIVE Dot(_, _)
Dot(a, b) == IF Len(a) = 0 THEN 0 ELSE a[1] * b[1] + Dot(Tail(a), Tail(b))

RECURSIVE SumAbs(_)
SumAbs(a) ==
  IF Len(a) = 0 THEN 0
  ELSE (IF a[1] < 0 THEN -a[1] ELSE a[1]) + SumAbs(Tail(a))

\* np.linalg.norm on the vectors above, whose norms are integers (the norm
\* is at most the sum of the absolute values)
Norm(a) == CHOOSE n \in 0..SumAbs(a) : n * n = Dot(a, a)

\* a score is the exact rational <<numerator, denominator>>, denominator > 0
cosine_similarity(a, b) == <<Dot(a, b), Norm(a) * Norm(b)>>

Gt(x, y) == x[1] * y[2] > y[1] * x[2]
Ge(x, y) == x[1] * y[2] >= y[1] * x[2]
Eq(x, y) == x[1] * y[2] = y[1] * x[2]

(***************************************************************************)
(* build_library_embeddings (the body st.cache_resource wraps)             *)
(***************************************************************************)
\* lines 154-168: the composite text of one item, or the exception raised
Composite(section, e) ==
  IF e.t # "dict" THEN [raised |-> TRUE, text |-> <<>>]
  ELSE IF section = "entry"
  THEN LET tags == Iterate(OrEmptyList(Get(e, "tags", EmptyList)))
           tagsJoined == JoinValues(tags.seq)
           sc0 == Get(e, "sample_claim", EmptyList)
           sc == IF sc0.t = "str" THEN L(<<sc0>>) ELSE sc0
           claims == IF sc.t = "list" \/ ~Truthy(sc)
                     THEN [raised |-> FALSE, seq |-> OrEmptyList(sc).v]
                     ELSE [raised |-> TRUE, seq |-> <<>>]
           bits == <<Get(e, "topic", EmptyStr), S(tagsJoined.text)>> \o claims.seq
           joined == JoinValues(bits)
       IN  IF tags.raised \/ tagsJoined.raised \/ claims.raised \/ joined.raised
           THEN [raised |-> TRUE, text |-> <<>>]
           ELSE [raised |-> FALSE, text |-> Strip(joined.text)]
  ELSE LET joined == JoinValues(<<Get(e, "name", EmptyStr),
                                  Get(e, "description", EmptyStr)>>)
       IN  IF joined.raised THEN [raised |-> TRUE, text |-> <<>>]
           ELSE [raised |-> FALSE, text |-> Strip(joined.text)]

\* lines 172-183: one embedding request; resp is the service's answer
EmbedItem(acc, section, i, text, resp) ==
  IF resp = FAIL
  THEN [acc EXCEPT !.requests = Append(@, text),
                   !.warnings = Append(@, text)]
  ELSE [acc EXCEPT !.requests = Append(@, text),
                   !.items = Append(@, [kind |-> section, idx |-> i,
                                        embedding |-> resp])]

RECURSIVE SectionLoop(_, _, _, _, _)
\* lines 153-183: the inner loop over one section, from item i on
SectionLoop(section, es, i, resps, acc) ==
  IF acc.raised \/ i > Len(es) THEN acc
  ELSE LET c == Composite(section, es[i])
       IN  IF c.raised THEN [acc EXCEPT !.raised = TRUE]
           ELSE IF c.text = <<>>
           THEN SectionLoop(section, es, i + 1, resps, acc)
           ELSE SectionLoop(section, es, i + 1, resps,
                  EmbedItem(acc, section, i, c.text, resps[Len(acc.requests) + 1]))

\* lines 151-153: one section of the outer loop
Section(section, entries, resps, acc) ==
  IF acc.raised THEN acc
  ELSE LET it == Iterate(OrEmptyList(entries))
       IN  IF it.raised THEN [acc EXCEPT !.raised = TRUE]
           ELSE SectionLoop(section, it.seq, 1, resps, acc)

EmptyBuild == [raised |-> FALSE, items |-> <<>>, requests |-> <<>>, warnings |-> <<>>]

\* lines 145-185; resps[k] answers the k-th embedding request
\* (an answer the builder never asks for is not read)
build_body(lib, resps) ==
  LET j == Json(lib)
  IN  IF ~Truthy(j) \/ j.t # "dict" THEN EmptyBuild
      ELSE LET a1 == Section("entry", Get(j, "entries", EmptyList), resps, EmptyBuild)
           IN  Section("principle", Get(j, "general_principles", EmptyList), resps, a1)

\* how many embedding requests the builder's body makes for lib: the
\* requests do not depend on the answers
RequestCount(lib) ==
  Len(build_body(lib, [k \in Nat |-> FAIL]).requests)

(***************************************************************************)
(* match_category                                                          *)
(***************************************************************************)
\* the index is not looked at before the query is embedded
EarlyReturnOnTextOnly(text, index) == Len(text) = 0

\* line 194: if not text or not LIBRARY_EMBEDS
EarlyReturn(text, index) == Len(text) = 0 \/ Len(index) = 0

\* line 207: best_score = -1
InitialBestScore == <<-1, 1>>

\* a later item replaces an equal earlier one
BetterOrEqual(sim, best_score) == Ge(sim, best_score)

\* line 210: if sim > best_score
Better(sim, best_score) == Gt(sim, best_score)

\* line 214: best_score >= threshold
Accept(best_score, threshold) == Ge(best_score, threshold)

RECURSIVE BestLoop(_, _, _, _, _)
\* lines 208-212: best is a position in the index, 0 for None
BestLoop(index, q_emb, i, best, best_score) ==
  IF i > Len(index) THEN [best |-> best, best_score |-> best_score]
  ELSE LET sim == cosine_similarity(q_emb, index[i].embedding)
       IN  IF Better(sim, best_score)
           THEN BestLoop(index, q_emb, i + 1, i, sim)
           ELSE BestLoop(index, q_emb, i + 1, best, best_score)

NoMatch(requested, warned) ==
  [matched |-> FALSE, kind |-> "none", idx |-> 0, pos |-> 0,
   requested |-> requested, warned |-> warned]

\* lines 189-219; q_resp answers the query-embedding request if one is made
match_category(text, threshold, index, q_resp) ==
  IF EarlyReturn(text, index) THEN NoMatch(FALSE, FALSE)
  ELSE IF q_resp = FAIL THEN NoMatch(TRUE, TRUE)
  ELSE LET b == BestLoop(index, q_resp, 1, 0, InitialBestScore)
       IN  IF b.best # 0 /\ Accept(b.best_score, threshold)
           THEN [matched |-> TRUE, kind |-> index[b.best].kind,
                 idx |-> index[b.best].idx, pos |-> b.best,
                 requested |-> TRUE, warned |-> FALSE]
           ELSE NoMatch(TRUE, FALSE)

\* line 189: threshold: float = 0.70
DefaultThreshold == <<7, 10>>

(***************************************************************************)
(* Hint composition and the generation request (submit handler)            *)
(***************************************************************************)
\* str(x) inside an f-string
Format(x) ==
  CASE x.t = "str" -> x.v
    [] x.t = "null" -> <<"None">>
    [] OTHER -> <<"<repr>">>

\* xs[:3]
FirstThree(xs) == SubSeq(xs, 1, IF Len(xs) < 3 THEN Len(xs) ELSE 3)

\* xs[:2]
FirstTwo(xs) == SubSeq(xs, 1, IF Len(xs) < 2 THEN Len(xs) ELSE 2)

IsStr(x) == x.t = "str"

\* x[:2] on a python value: TypeError for an int
SliceTwo(x) ==
  CASE x.t = "list" -> [raised |-> FALSE, seq |-> FirstTwo(x.v)]
    [] x.t = "str" ->
         [raised |-> FALSE,
          seq |-> FirstTwo([i \in 1..Len(x.v) |-> S(<<x.v[i]>>)])]
    [] OTHER -> [raised |-> TRUE, seq |-> <<>>]

\* line 262
InferredLabel == <<"Inferred (no close library match)">>

\* the item a match refers to
ItemOf(lib, kind, idx) ==
  IF kind = "entry" THEN Json(lib).v.entries.v[idx]
  ELSE Json(lib).v.general_principles.v[idx]

\* lines 240-253
ComposeEntry(item) ==
  LET lbl == <<"Library-based (">> \o Format(Get(item, "topic", S(<<"entry">>)))
               \o <<")">>
      qs == SliceTwo(OrEmptyList(Get(item, "questions", EmptyList)))
      used_q == SelectSeq(qs.seq, IsStr)
      questions_hint == Join([i \in 1..Len(used_q) |-> used_q[i].v])
      refl == Get(item, "reflection", EmptyStr)
      used_r == IF refl.t = "list" THEN SelectSeq(FirstTwo(refl.v), IsStr)
                ELSE <<refl>>
      reflection_hint == IF refl.t = "list"
                         THEN Join([i \in 1..Len(used_r) |-> used_r[i].v])
                         ELSE Format(refl)
  IN  [raised |-> qs.raised, label |-> lbl,
       used_questions |-> used_q, used_reflections |-> used_r,
       library_hint |-> lbl \o <<": Use the entry's spirit ... in this spirit: ">>
                        \o questions_hint
                        \o <<". (Background for you, not to quote: ">>
                        \o reflection_hint \o <<")">>]

\* lines 254-260
ComposePrinciple(item) ==
  LET lbl == <<"Library-based (principle: ">>
               \o Format(Get(item, "name", EmptyStr)) \o <<")">>
  IN  [raised |-> FALSE, label |-> lbl,
       used_questions |-> <<>>, used_reflections |-> <<>>,
       library_hint |-> lbl \o <<": Ground the reflection in this principle's description. (Background for you, not to quote: ">>
                        \o Format(Get(item, "description", EmptyStr)) \o <<")">>]

\* lines 261-263
ComposeInferred ==
  [raised |-> FALSE, label |-> InferredLabel,
   used_questions |-> <<>>, used_reflections |-> <<>>,
   library_hint |-> InferredLabel \o <<": No obvious library match; proceed normally.">>]

\* lines 238-263: the hint for a match result m over library lib
Compose(lib, m) ==
  IF m.matched
  THEN IF m.kind = "entry" THEN ComposeEntry(ItemOf(lib, m.kind, m.idx))
       ELSE ComposePrinciple(ItemOf(lib, m.kind, m.idx))
  ELSE ComposeInferred

\* lines 270-274: the messages of the generation request
Messages(library_hint, user_input) ==
  <<<<"SYSTEM_PROMPT">>, library_hint, user_input>>

\* the generation error is swallowed and nothing is shown
GenerationOutputDropsError(gen_ok) == IF gen_ok THEN "text" ELSE "none"

\* lines 266-278: the text shown, generated or "Error: ..."
GenerationOutput(gen_ok) == IF gen_ok THEN "text" ELSE "error"

(***************************************************************************)
(* Session state (st.session_state, st.cache_resource, last run's effects) *)
(***************************************************************************)
NoEntry == [present |-> FALSE, items |-> <<>>]

NoHint == <<>>

NoLabel == <<>>

\* line 62
DAILY_LIMIT == 50

\* line 233
MaxInputLen == 4000

\* off by one: the limit itself still passes
LimitExceeded(n) == n > DAILY_LIMIT

\* line 224: st.session_state.requests_today >= DAILY_LIMIT
LimitReached(n) == n >= DAILY_LIMIT

\* what library.json holds during a session
SessionFiles == {"missing", "good", "nonobj_item", "entries_null"}

SessionLibs == {load_library(f) : f \in SessionFiles}

\* the answers the embedding service gives during a session
SessionResponses == { <<3, 4, 0, 0>>, <<0, 0, 3, 4>>, FAIL }

\* the text area's content when a button is pressed
Prompts == { <<SP>>, <<SP, "is", SP, "this", SP, "fair">> }

\* a fresh process and a fresh session, before the first script run
SessionInit ==
  /\ cache = [d \in SessionLibs |-> NoEntry]
  /\ invoked = {}
  /\ requests_today = 0
  /\ LIBRARY_EMBEDS = <<>>
  /\ button = "none"
  /\ outcome = "start"
  /\ calls = <<>>
  /\ label = NoLabel
  /\ hint = NoHint
  /\ output = "none"

Call(op, ok) == [op |-> op, ok |-> ok]

\* line 144 and 188: st.cache_resource around the builder, keyed by the
\* library's content; a raised exception is not cached
cached_build(lib, resps) ==
  IF cache[lib].present
  THEN [raised |-> FALSE, items |-> cache[lib].items, log |-> <<>>,
        cache |-> cache]
  ELSE LET b == build_body(lib, resps)
       IN  [raised |-> b.raised,
            items |-> IF b.raised THEN <<>> ELSE b.items,
            log |-> [k \in 1..Len(b.requests) |-> Call("embed_index", TRUE)],
            cache |-> IF b.raised THEN cache
                      ELSE [cache EXCEPT ![lib] =
                              [present |-> TRUE, items |-> b.items]]]

\* the service's answers to the builder's requests in one run; it is asked
\* nothing when the index comes from the cache
BuildResponses(lib) ==
  IF cache[lib].present THEN {<<>>}
  ELSE [1..RequestCount(lib) -> SessionResponses]

\* lines 232-234
Truncate(user_input) ==
  IF Len(user_input) > MaxInputLen
  THEN SubSeq(user_input, 1, MaxInputLen) \o <<"\n\n[Truncated for length]">>
  ELSE user_input

\* the generation request is made before the query is embedded
SubmitCallsGenerateFirst(m, gen_ok) ==
  <<Call("generate", gen_ok)>>
    \o (IF m.requested THEN <<Call("embed_query", ~m.warned)>> ELSE <<>>)

\* lines 237 and 266-275: the handler's external calls, in the order made
SubmitCalls(m, gen_ok) ==
  (IF m.requested THEN <<Call("embed_query", ~m.warned)>> ELSE <<>>)
    \o <<Call("generate", gen_ok)>>

\* lines 223-285: the submit handler; rt is requests_today when it starts
Handler(lib, index, prompt, q_resp, gen_ok, rt) ==
  IF LimitReached(rt)
  THEN [outcome |-> "blocked", requests_today |-> rt, calls |-> <<>>,
        label |-> NoLabel, hint |-> NoHint, output |-> "none"]
  ELSE IF Strip(prompt) = <<>>
  THEN [outcome |-> "empty_prompt", requests_today |-> rt, calls |-> <<>>,
        label |-> NoLabel, hint |-> NoHint, output |-> "none"]
  ELSE LET user_input == Truncate(Strip(prompt))
           m == match_category(user_input, DefaultThreshold, index, q_resp)
           c == Compose(lib, m)
       IN  IF c.raised
           THEN [outcome |-> "crashed_handler", requests_today |-> rt + 1,
                 calls |-> IF m.requested
                           THEN <<Call("embed_query", ~m.warned)>> ELSE <<>>,
                 label |-> c.label, hint |-> NoHint, output |-> "none"]
           ELSE [outcome |-> "answered", requests_today |-> rt + 1,
                 calls |-> SubmitCalls(m, gen_ok),
                 label |-> c.label,
                 hint |-> Messages(c.library_hint, user_input)[2],
                 output |-> GenerationOutput(gen_ok)]

Idle(rt) ==
  [outcome |-> "idle", requests_today |-> rt, calls |-> <<>>,
   label |-> NoLabel, hint |-> NoHint, output |-> "none"]

\* one run of the script from line 129 on (the build, then the handler);
\* rt is requests_today as lines 60-61 leave it
RunFromBuild(lib, go, prompt, resps, q_resp, gen_ok, rt) ==
  \E cb \in {cached_build(lib, resps)} :
  \E h \in {IF cb.raised
            THEN [Idle(rt) EXCEPT !.outcome = "crashed_build"]
            ELSE IF go THEN Handler(lib, cb.items, prompt, q_resp, gen_ok, rt)
            ELSE Idle(rt)} :
      /\ cache' = cb.cache
      /\ invoked' = invoked \cup {lib}
      /\ LIBRARY_EMBEDS' = cb.items
      /\ requests_today' = h.requests_today
      /\ outcome' = h.outcome
      /\ calls' = cb.log \o h.calls
      /\ label' = h.label
      /\ hint' = h.hint
      /\ output' = h.output

\* a run that stops at lines 44-45 with a TypeError: nothing below line 45
\* is executed
CrashAtSidebar ==
  /\ outcome' = "crashed_sidebar"
  /\ calls' = <<>>
  /\ LIBRARY_EMBEDS' = <<>>
  /\ label' = NoLabel
  /\ hint' = NoHint
  /\ output' = "none"
  /\ UNCHANGED <<cache, invoked, requests_today>>

\* the last run reached lines 113-123: the text area and the buttons exist
Rendered == outcome \notin {"start", "crashed_sidebar"}

\* a run without a button press: first load, browser refresh, widget change
PageLoad ==
  /\ button' = "none"
  /\ LET lib == load_library(file)
     IN  IF sidebar_raises(lib) THEN CrashAtSidebar
         ELSE \E resps \in BuildResponses(lib) :
                RunFromBuild(lib, FALSE, <<>>, resps, FAIL, FALSE, requests_today)
  /\ UNCHANGED <<file, arg, ret>>

\* "Unpack" pressed: the script runs with go = True
Submit ==
  /\ Rendered
  /\ button' = "go"
  /\ LET lib == load_library(file)
     IN  IF sidebar_raises(lib) THEN CrashAtSidebar
         ELSE \E prompt \in Prompts, q_resp \in SessionResponses, gen_ok \in BOOLEAN,
                 resps \in BuildResponses(lib) :
                RunFromBuild(lib, TRUE, prompt, resps, q_resp, gen_ok, requests_today)
  /\ UNCHANGED <<file, arg, ret>>

\* "Reset" pressed: lines 125-127 clear the session state and rerun the
\* script, which then runs as a page load with requests_today = 0
Reset ==
  /\ Rendered
  /\ button' = "reset"
  /\ LET lib == load_library(file)
     IN  IF sidebar_raises(lib) THEN CrashAtSidebar
         ELSE \E resps \in BuildResponses(lib) :
                RunFromBuild(lib, FALSE, <<>>, resps, FAIL, FALSE, 0)
  /\ UNCHANGED <<file, arg, ret>>

\* library.json is replaced on disk between two runs
FileChange ==
  /\ \E f \in SessionFiles \ {file} : file' = f
  /\ UNCHANGED <<cache, invoked, requests_today, LIBRARY_EMBEDS, button,
                 outcome, calls, label, hint, output, arg, ret>>

Init ==
  /\ SessionInit
  /\ file \in SessionFiles
  /\ arg = [text |-> <<>>, threshold |-> DefaultThreshold]
  /\ ret = [phase |-> "session"]

Next == PageLoad \/ Submit \/ Reset \/ FileChange

Spec == Init /\ [][Next]_vars

(***************************************************************************)
(* SpecIndex: load + build + match as functions of their inputs            *)
(***************************************************************************)
Responses == Vecs \cup {FAIL}

Texts == { <<>>, <<SP>>, <<"is", SP, "this", SP, "fair">> }

Thresholds == { <<-1, 1>>, DefaultThreshold, <<1, 1>> }

\* lines 40-47 and 188 of one script run: load, sidebar summary, build
LoadAndBuildResult(f, resps) ==
  LET lib == load_library(f)
      b == build_body(lib, resps)
  IN  IF sidebar_raises(lib)
      THEN [phase |-> "built", lib |-> lib, diagnostic |-> load_diagnostic(f),
            build_called |-> FALSE,
            raised |-> TRUE, items |-> <<>>, requests |-> <<>>,
            warnings |-> <<>>, resps |-> resps]
      ELSE [phase |-> "built", lib |-> lib, diagnostic |-> load_diagnostic(f),
            build_called |-> TRUE,
            raised |-> b.raised, items |-> IF b.raised THEN <<>> ELSE b.items,
            requests |-> b.requests, warnings |-> b.warnings, resps |-> resps]

IndexInit ==
  /\ SessionInit
  /\ file \in Files
  /\ arg \in [text : Texts, threshold : Thresholds]
  /\ ret = [phase |-> "pending"]

LoadAndBuild ==
  /\ ret.phase = "pending"
  /\ \E resps \in [1..RequestCount(load_library(file)) -> Responses] :
       ret' = LoadAndBuildResult(file, resps)
  /\ UNCHANGED <<sessionVars, arg>>

Match ==
  /\ ret.phase = "built"
  /\ ~ret.raised
  /\ \E q_resp \in Responses :
       ret' = [phase |-> "matched", lib |-> ret.lib, index |-> ret.items,
               q_resp |-> q_resp,
               m |-> match_category(arg.text, arg.threshold, ret.items, q_resp)]
  /\ UNCHANGED <<sessionVars, arg>>

\* lines 238-275 for the match just computed: hint, then generation request
ComposeAndRequest ==
  /\ ret.phase = "matched"
  /\ LET c == Compose(ret.lib, ret.m)
     IN  ret' = [phase |-> "composed", lib |-> ret.lib, m |-> ret.m,
                 raised |-> c.raised,
                 c |-> c,
                 messages |-> IF c.raised THEN <<>>
                              ELSE Messages(c.library_hint, arg.text)]
  /\ UNCHANGED <<sessionVars, arg>>

IndexNext == LoadAndBuild \/ Match \/ ComposeAndRequest

SpecIndex == IndexInit /\ [][IndexNext]_vars

(***************************************************************************)
(* Properties of the index builder and the matcher (under SpecIndex)       *)
(***************************************************************************)
ScoreAt(index, q, i) == cosine_similarity(q, index[i].embedding)

\* the greatest similarity over a non-empty index
MaxScore(index, q) ==
  CHOOSE s \in {ScoreAt(index, q, i) : i \in 1..Len(index)} :
    \A i \in 1..Len(index) : Ge(s, ScoreAt(index, q, i))

\* the first position of the index that attains the greatest similarity
FirstMax(index, q) ==
  CHOOSE i \in 1..Len(index) :
    /\ Eq(ScoreAt(index, q, i), MaxScore(index, q))
    /\ \A k \in 1..(i - 1) : ~Eq(ScoreAt(index, q, k), MaxScore(index, q))

Embedded == ret.phase = "matched" /\ Len(arg.text) > 0 /\ Len(ret.index) > 0
              /\ ret.q_resp # FAIL

\* C2: inclusive lower bound. With a non-empty index and a query whose
\* embedding succeeded, a best score equal to the threshold returns the match
\* and a best score strictly below the threshold returns none, for every
\* threshold.
C2_InclusiveThreshold ==
  Embedded =>
    LET mx == MaxScore(ret.index, ret.q_resp)
    IN  /\ Eq(mx, arg.threshold) => ret.m.matched
        /\ Gt(arg.threshold, mx) => ~ret.m.matched

\* entries before principles, each section in file order
IndexInLibraryOrder(items) ==
  \A i, k \in 1..Len(items) :
    i < k => /\ items[i].kind = "principle" => items[k].kind = "principle"
             /\ items[i].kind = items[k].kind => items[i].idx < items[k].idx

\* C3: a returned match is a single item, the first one in index order that
\* attains the maximum similarity over the whole index, and the index lists
\* the entries in file order before the principles in file order, so that an
\* entry wins a tie against a principle.
C3_TopOneFirstMax ==
  /\ ret.phase = "built" => IndexInLibraryOrder(ret.items)
  /\ (ret.phase = "matched" /\ ret.m.matched) =>
       LET p == FirstMax(ret.index, ret.q_resp)
       IN  /\ ret.m.pos = p
           /\ ret.m.kind = ret.index[p].kind
           /\ ret.m.idx = ret.index[p].idx
           /\ ret.m.kind = "principle" =>
                \A i \in 1..Len(ret.index) :
                  ret.index[i].kind = "entry" =>
                    ~Eq(ScoreAt(ret.index, ret.q_resp, i),
                        MaxScore(ret.index, ret.q_resp))

\* C3 witness: an entry is returned although a principle has the same,
\* maximal, score
C3_Witness ==
  /\ ret.phase = "matched" /\ ret.m.matched /\ ret.m.kind = "entry"
  /\ \E i \in 1..Len(ret.index) :
       /\ ret.index[i].kind = "principle"
       /\ Eq(ScoreAt(ret.index, ret.q_resp, i), MaxScore(ret.index, ret.q_resp))

\* C4: an empty query text or an empty index gives none without any
\* embedding request; a library with no entries and no principles has an
\* empty index.
C4_EmptyInputsNoCall ==
  /\ (ret.phase = "built" /\ ret.lib \in {"empty_dict", "empty_lists"}) =>
       (~ret.raised /\ ret.items = <<>> /\ ret.requests = <<>>)
  /\ (ret.phase = "matched" /\ (Len(arg.text) = 0 \/ Len(ret.index) = 0)) =>
       (~ret.m.matched /\ ~ret.m.requested)

\* C4 witness: a non-empty query against the index of a library with zero
\* entries and zero principles, the service being ready to answer
C4_Witness ==
  /\ ret.phase = "matched" /\ ret.lib = "empty_lists"
  /\ Len(arg.text) > 0 /\ ret.q_resp # FAIL
  /\ ~ret.m.matched /\ ~ret.m.requested

\* C6: loading the library and building the index raise no error, whatever
\* the file holds; a missing file or malformed JSON is reported and gives an
\* empty index.
C6_LoadNeverRaises ==
  ret.phase = "built" =>
    /\ ~ret.raised
    /\ file \in {"missing", "badjson"} =>
         (ret.diagnostic # "none" /\ ret.items = <<>>)

\* the items of a library document, entries before principles
LibraryItems(lib) ==
  LET j == Json(lib)
      sec(k) == IF j.t = "dict" /\ Get(j, k, EmptyList).t = "list"
                THEN Get(j, k, EmptyList).v ELSE <<>>
  IN  [i \in 1..Len(sec("entries")) |->
         [kind |-> "entry", idx |-> i, e |-> sec("entries")[i]]]
      \o [i \in 1..Len(sec("general_principles")) |->
         [kind |-> "principle", idx |-> i, e |-> sec("general_principles")[i]]]

HasText(it) ==
  LET c == Composite(it.kind, it.e) IN ~c.raised /\ c.text # <<>>

Answered(x) == x.embedding # FAIL

\* C9: the index holds exactly one item for each library item whose composite
\* text is non-empty after trimming and whose embedding request succeeded, in
\* library order; an item with empty composite text gets no request, and a
\* failed request skips that item only.
C9_OneItemPerEmbeddedText ==
  (ret.phase = "built" /\ ret.build_called) =>
    LET emb == SelectSeq(LibraryItems(ret.lib), HasText)
        answered == [k \in 1..Len(emb) |->
                       [kind |-> emb[k].kind, idx |-> emb[k].idx,
                        embedding |-> ret.resps[k]]]
    IN  /\ ret.requests =
             [k \in 1..Len(emb) |-> Composite(emb[k].kind, emb[k].e).text]
        /\ ret.items = SelectSeq(answered, Answered)

\* lemma: the index is as C9 says whenever the builder returns
C9_WhenNothingRaised == (ret.phase = "built" /\ ret.raised) \/ C9_OneItemPerEmbeddedText

BeginsWith(s, prefix) ==
  Len(s) >= Len(prefix) /\ SubSeq(s, 1, Len(prefix)) = prefix

\* xs is made of elements of the first two elements of the list v, in order
FromFirstTwo(xs, v) ==
  /\ Len(xs) <= 2
  /\ v.t = "list" =>
       \/ xs = <<>>
       \/ Len(v.v) >= 1 /\ xs = <<v.v[1]>>
       \/ Len(v.v) >= 2 /\ (xs = <<v.v[2]>> \/ xs = <<v.v[1], v.v[2]>>)

\* C10: the label follows from the match result alone: "Library-based
\* (<topic>)" for an entry, "Library-based (principle: <name>)" for a
\* principle, "Inferred (no close library match)" exactly when there is no
\* match; an entry's directive uses at most the first two questions and at
\* most the first two reflection fragments; the hint message of the
\* generation request begins with the label.
C10_LabelFollowsMatch ==
  (ret.phase = "composed" /\ ~ret.raised) =>
    LET m == ret.m
        item == ItemOf(ret.lib, m.kind, m.idx)
    IN  /\ (ret.c.label = InferredLabel) <=> ~m.matched
        /\ (m.matched /\ m.kind = "entry" /\ Get(item, "topic", Null).t = "str") =>
             ret.c.label = <<"Library-based (">> \o item.v.topic.v \o <<")">>
        /\ (m.matched /\ m.kind = "principle" /\ Get(item, "name", Null).t = "str") =>
             ret.c.label = <<"Library-based (principle: ">> \o item.v.name.v \o <<")">>
        /\ (m.matched /\ m.kind = "entry") =>
             /\ FromFirstTwo(ret.c.used_questions, Get(item, "questions", EmptyList))
             /\ FromFirstTwo(ret.c.used_reflections, Get(item, "reflection", EmptyStr))
        /\ Len(ret.messages) = 3
        /\ BeginsWith(ret.messages[2], ret.c.label)

\* C10 witness: an entry with three questions and three reflection fragments
\* is matched and two of each reach the hint
C10_Witness ==
  /\ ret.phase = "composed" /\ ~ret.raised
  /\ ret.m.matched /\ ret.m.kind = "entry"
  /\ ret.c.label = <<"Library-based (", "fairness", ")">>
  /\ Len(ret.c.used_questions) = 2 /\ Len(ret.c.used_reflections) = 2

(***************************************************************************)
(* Properties of a session (under Spec)                                    *)
(***************************************************************************)
Ops(cs) == [i \in 1..Len(cs) |-> cs[i].op]

IsBuildCall(c) == c.op = "embed_index"

IsHandlerCall(c) == c.op \in {"embed_query", "generate"}

\* a step that is one script run: the file is as the run read it
RunStep == file' = file

\* C1: the counter never exceeds the limit; a query-embedding or generation
\* call is made only by a submission that found the counter below the limit
\* and raised it by one, so that 50 generation calls leave it at 50; a
\* submission that finds the counter at the limit makes no such call and
\* leaves the counter as it is; the counter goes down only by a reset.
C1_LimitBlocksBeforeCalls ==
  [][ /\ requests_today' <= DAILY_LIMIT
      /\ (RunStep /\ SelectSeq(calls', IsHandlerCall) # <<>>) =>
           (requests_today < DAILY_LIMIT /\ requests_today' = requests_today + 1)
      /\ (RunStep /\ button' = "go" /\ requests_today >= DAILY_LIMIT) =>
           /\ requests_today' = requests_today
           /\ SelectSeq(calls', IsHandlerCall) = <<>>
           /\ outcome' \in {"blocked", "crashed_sidebar", "crashed_build"}
      /\ requests_today' < requests_today => button' = "reset"
    ]_vars

\* C1 witness: the 51st submission, blocked with the counter at 50
C1_Witness ==
  /\ button = "go" /\ outcome = "blocked"
  /\ requests_today = 50 /\ calls = <<>>

\* C5: a submission whose query-embedding request failed is answered all the
\* same: the label is the inferred one, the generation call is the last call
\* made, and the response is the generated text or the generation error.
C5_QueryFailureFailsOpen ==
  (button = "go" /\ \E i \in 1..Len(calls) : calls[i] = Call("embed_query", FALSE)) =>
    /\ outcome = "answered"
    /\ label = InferredLabel
    /\ BeginsWith(hint, InferredLabel)
    /\ calls[Len(calls)].op = "generate"
    /\ output = IF calls[Len(calls)].ok THEN "text" ELSE "error"

\* C5 witness: the query embedding and the generation both failed, and the
\* error is the response
C5_Witness ==
  /\ button = "go" /\ outcome = "answered" /\ output = "error"
  /\ Ops(calls) = <<"embed_query", "generate">>
  /\ ~calls[1].ok /\ ~calls[2].ok

\* C7: a run whose library the builder was already invoked with issues no
\* index-build embedding request; a run with a library it was never invoked
\* with executes the builder.
C7_BuildOnlyOnFirstInvocation ==
  [][ RunStep =>
        LET lib == load_library(file)
        IN  /\ lib \in invoked => SelectSeq(calls', IsBuildCall) = <<>>
            /\ (lib \notin invoked /\ lib \in invoked') =>
                 Len(SelectSeq(calls', IsBuildCall)) = RequestCount(lib)
    ]_vars

HandlerCallOrders ==
  { <<>>, <<"embed_query">>, <<"generate">>, <<"embed_query", "generate">> }

\* C8 as stated: a submission's run issues at most the query-embedding
\* request and then the generation request, and no other external call.
C8_AtMostTwoCalls == button = "go" => Ops(calls) \in HandlerCallOrders

\* C8 as amended: in a submission's run the handler issues at most the
\* query-embedding request and then the generation request; index-build
\* embedding requests are issued in that run, before the handler's, only
\* when the library read has no cached index.
C8_HandlerCallsAfterBuild ==
  [][ (RunStep /\ button' = "go") =>
        LET b == SelectSeq(calls', IsBuildCall)
            h == SelectSeq(calls', IsHandlerCall)
        IN  /\ calls' = b \o h
            /\ Ops(h) \in HandlerCallOrders
            /\ cache[load_library(file)].present => b = <<>>
    ]_vars

\* C8 witness: a submission's run that rebuilt the index of a changed library
\* before the query embedding and the generation
C8_Witness ==
  /\ button = "go"
  /\ Ops(calls) = <<"embed_index", "embed_index", "embed_query", "generate">>

\* lemma: the inclusive bound of C2 holds for the thresholds above -1
C2_AboveMinusOne == Eq(arg.threshold, <<-1, 1>>) \/ C2_InclusiveThreshold

====
